---- MODULE Spec2Model ----
(***************************************************************************)
(* Book catalogue front end (src/app/page.tsx): the BooksClient list       *)
(* controller and the BookModal edit form, as a state machine.             *)
(*                                                                         *)
(* React's scheduling is modelled as it runs the code: an event handler or *)
(* the continuation of an awaited request is one step that commits its     *)
(* state updates; a useEffect whose dependencies changed in that commit    *)
(* runs as the next step, before any other event or continuation (no other *)
(* action is enabled while an effect is pending).  A function of a render  *)
(* reads the state of that render: getBooks() called from a handler uses   *)
(* the page, viewCnt and searchKeyword of the render the handler belongs   *)
(* to, not the values the handler has just set.                            *)
(*                                                                         *)
(* The remote service is the environment: every request in flight may be   *)
(* answered at any time, in any order, with success or failure.  Browser   *)
(* form validation (the required attributes) is not part of the handlers   *)
(* and is not modelled, so handleSubmit may run with any form content.     *)
(* The modal's overlay covers the list: list controls are used only while  *)
(* the modal is closed.                                                    *)
(***************************************************************************)
EXTENDS Integers, Sequences, FiniteSets, Bags, TLC

\* ---------------------------------------------------------------- bounds
MaxPage == 3          \* the Next button is not pressed beyond this page
MaxTotal == 2         \* the service reports totalPages in 0..MaxTotal
MaxInFlight == 2      \* requests (of all kinds) awaiting their response
MaxSessions == 2      \* times the modal is opened
WinMaxPage == 12      \* pages tried by the pagination-window specification
WinMaxTotal == 21     \* totalPages tried by the pagination-window specification

\* ------------------------------------------------------------- constants
ViewCnt == 10                       \* useState(10)
maxVisiblePages == 10
NoFile == 0                         \* useState<File | null>(null)
Keywords == {"", "k"}               \* contents of the search box
BookIds == {"b1", "b2"}             \* ids of the records of the service
ServerMessages == {"", "m"}         \* errorData.message ("": absent)
DefaultSaveError == "save failed"   \* the fallback text of handleSaveBook
initialBookState == [id |-> ""]     \* the fields other than id are not needed
Null == <<>>                        \* useState<BooksResponse | null>(null)

VARIABLES
    \* BooksClient
    searchKeyword, data, loading, page, viewCnt, isModalOpen, selectedBook,
    listDeps,       \* dependencies [page, viewCnt, searchKeyword] of the last run of the list effect
    range,          \* the page buttons on screen
    \* BookModal
    bookData, modalLoading, error, thumbnail,
    modalDeps,      \* dependencies [bookId, isOpen] of the last run of the modal effect
    \* requests awaiting their response (bags)
    listReqs, detailReqs, saveReqs, delReqs,
    \* history
    session,        \* number of times the modal has been opened
    lastArrived     \* the result of the last successful list response

clientVars == <<searchKeyword, data, loading, page, viewCnt, isModalOpen, selectedBook, listDeps, range>>
modalVars == <<bookData, modalLoading, error, thumbnail, modalDeps>>
netVars == <<listReqs, detailReqs, saveReqs, delReqs>>
vars == <<clientVars, modalVars, netVars, session, lastArrived>>

\* ---------------------------------------------------------------- helpers
Max(a, b) == IF a >= b THEN a ELSE b
Min(a, b) == IF a <= b THEN a ELSE b

Put(bag, x) == bag (+) SetToBag({x})
Take(bag, x) == bag (-) SetToBag({x})

InFlight ==
    BagCardinality(listReqs) + BagCardinality(detailReqs)
        + BagCardinality(saveReqs) + BagCardinality(delReqs)

Room(n) == InFlight + n <= MaxInFlight

\* The query of getBooks() in a render with these values.
Params(p, v, k) == [page |-> p, viewCnt |-> v, searchKeyword |-> k]

CurrentParams == Params(page, viewCnt, searchKeyword)

\* What the service may answer to a list request.
ListResults(req) ==
    [for : {req}, totalPages : 0..MaxTotal, hasRows : BOOLEAN]

\* ------------------------------------------------------ pagination window
getPaginationRangeShifted(p, d) ==
    IF d = Null THEN <<>>
    ELSE LET total == d[1].totalPages
             start0 == Max(p - 4, 1)
             end0 == Min(p + 5, total)
             narrow == end0 - start0 + 1 < maxVisiblePages
             end1 == IF narrow /\ start0 = 1
                     THEN Min(start0 + maxVisiblePages - 1, total) ELSE end0
             start1 == IF narrow /\ start0 # 1
                       THEN Max(end0 - maxVisiblePages + 1, 1) ELSE start0
         IN  [i \in 1..Max(end1 - start1 + 1, 0) |-> start1 + i - 1]

getPaginationRangeUncapped(p, d) ==
    IF d = Null THEN <<>>
    ELSE LET total == d[1].totalPages
             start0 == Max(p - 5, 1)
             end0 == p + 4
             narrow == end0 - start0 + 1 < maxVisiblePages
             end1 == IF narrow /\ start0 = 1
                     THEN start0 + maxVisiblePages - 1 ELSE end0
             start1 == IF narrow /\ start0 # 1
                       THEN Max(end0 - maxVisiblePages + 1, 1) ELSE start0
         IN  [i \in 1..Max(end1 - start1 + 1, 0) |-> start1 + i - 1]

getPaginationRange(p, d) ==
    IF d = Null THEN <<>>
    ELSE LET total == d[1].totalPages
             start0 == Max(p - 5, 1)
             end0 == Min(p + 4, total)
             narrow == end0 - start0 + 1 < maxVisiblePages
             end1 == IF narrow /\ start0 = 1
                     THEN Min(start0 + maxVisiblePages - 1, total) ELSE end0
             start1 == IF narrow /\ start0 # 1
                       THEN Max(end0 - maxVisiblePages + 1, 1) ELSE start0
         IN  [i \in 1..Max(end1 - start1 + 1, 0) |-> start1 + i - 1]

\* The pagination bar is rendered only with a non-empty list.
PaginationShown(d) == d # Null /\ d[1].hasRows

PaginationView(p, d) == IF PaginationShown(d) THEN getPaginationRange(p, d) ELSE <<>>

Render == range' = PaginationView(page', data')

\* The rows of the list (with their edit and delete controls) are rendered.
RowsShown == ~loading /\ data # Null /\ data[1].hasRows

PrevNeverDisabled == FALSE

PrevDisabled == page = 1

\* --------------------------------------------------------------- effects
ModalEffectPending == modalDeps # <<selectedBook, isModalOpen>>

ListEffectPending == listDeps # <<page, viewCnt, searchKeyword>>

\* No effect is pending: the next event or continuation may run.
Flushed == ~ModalEffectPending /\ ~ListEffectPending

KeptThumbnail == thumbnail

ClearedThumbnail == NoFile

\* BookModal's useEffect(..., [bookId, isOpen])
ModalEffect ==
    /\ ModalEffectPending
    /\ modalDeps' = <<selectedBook, isModalOpen>>
    /\ thumbnail' = ClearedThumbnail
    /\ IF selectedBook # ""
       THEN /\ modalLoading' = TRUE
            /\ detailReqs' = Put(detailReqs, selectedBook)
            /\ UNCHANGED bookData
       ELSE /\ bookData' = initialBookState
            /\ UNCHANGED <<modalLoading, detailReqs>>
    /\ UNCHANGED <<clientVars, error, listReqs, saveReqs, delReqs, session, lastArrived>>

\* BooksClient's useEffect(() => getBooks(), [page, viewCnt, searchKeyword]);
\* the child's effect runs first.
ListEffect ==
    /\ ~ModalEffectPending
    /\ ListEffectPending
    /\ listDeps' = <<page, viewCnt, searchKeyword>>
    /\ loading' = TRUE
    /\ listReqs' = Put(listReqs, CurrentParams)
    /\ UNCHANGED <<searchKeyword, data, page, viewCnt, isModalOpen, selectedBook, range>>
    /\ UNCHANGED <<modalVars, detailReqs, saveReqs, delReqs, session, lastArrived>>

\* ------------------------------------------------------- list controller
\* onChange of the search box
setSearchKeyword(k) ==
    /\ Flushed /\ ~isModalOpen
    /\ k # searchKeyword
    /\ Room(1)
    /\ searchKeyword' = k
    /\ UNCHANGED <<data, loading, page, viewCnt, isModalOpen, selectedBook, listDeps>>
    /\ UNCHANGED <<modalVars, netVars, session, lastArrived>>
    /\ Render

handleSearch ==
    /\ Flushed /\ ~isModalOpen
    /\ Room(IF page # 1 THEN 2 ELSE 1)
    /\ page' = 1
    /\ loading' = TRUE
    /\ listReqs' = Put(listReqs, CurrentParams)
    /\ UNCHANGED <<searchKeyword, data, viewCnt, isModalOpen, selectedBook, listDeps>>
    /\ UNCHANGED <<modalVars, detailReqs, saveReqs, delReqs, session, lastArrived>>
    /\ Render

handlePageChange(newPage) ==
    /\ Flushed /\ ~isModalOpen
    /\ Room(IF newPage # page THEN 1 ELSE 0)
    /\ page' = newPage
    /\ UNCHANGED <<searchKeyword, data, loading, viewCnt, isModalOpen, selectedBook, listDeps>>
    /\ UNCHANGED <<modalVars, netVars, session, lastArrived>>
    /\ Render

PrevButton ==
    /\ PaginationShown(data)
    /\ ~PrevDisabled
    /\ handlePageChange(page - 1)

PageButton ==
    \E i \in 1..Len(range) : handlePageChange(range[i])

NextButton ==
    /\ PaginationShown(data)
    /\ page < MaxPage
    /\ handlePageChange(page + 1)

ResultAfterGuardedResponse(req, result) ==
    IF req = CurrentParams THEN <<result>> ELSE data

ResultAfterResponse(req, result) == <<result>>

\* The continuation of getBooks() after its fetch.
ListResponse(req, ok, result) ==
    /\ Flushed
    /\ BagIn(req, listReqs)
    /\ listReqs' = Take(listReqs, req)
    /\ IF ok
       THEN /\ data' = ResultAfterResponse(req, result)
            /\ lastArrived' = <<result>>
       ELSE UNCHANGED <<data, lastArrived>>
    /\ loading' = FALSE
    /\ UNCHANGED <<searchKeyword, page, viewCnt, isModalOpen, selectedBook, listDeps>>
    /\ UNCHANGED <<modalVars, detailReqs, saveReqs, delReqs, session>>
    /\ Render

handleAddBook ==
    /\ Flushed /\ ~isModalOpen
    /\ session < MaxSessions
    /\ selectedBook' = ""
    /\ isModalOpen' = TRUE
    /\ session' = session + 1
    /\ UNCHANGED <<searchKeyword, data, loading, page, viewCnt, listDeps>>
    /\ UNCHANGED <<modalVars, netVars, lastArrived>>
    /\ Render

handleEditBook(bookId) ==
    /\ Flushed /\ ~isModalOpen
    /\ RowsShown
    /\ session < MaxSessions
    /\ Room(1)
    /\ selectedBook' = bookId
    /\ isModalOpen' = TRUE
    /\ session' = session + 1
    /\ UNCHANGED <<searchKeyword, data, loading, page, viewCnt, listDeps>>
    /\ UNCHANGED <<modalVars, netVars, lastArrived>>
    /\ Render

handleDelBook(bookId) ==
    /\ Flushed /\ ~isModalOpen
    /\ RowsShown
    /\ Room(1)
    /\ delReqs' = Put(delReqs, [id |-> bookId, params |-> CurrentParams])
    /\ UNCHANGED <<clientVars, modalVars, listReqs, detailReqs, saveReqs, session, lastArrived>>

\* The continuation of handleDelBook after its fetch.
DeleteResponse(req, ok) ==
    /\ Flushed
    /\ BagIn(req, delReqs)
    /\ delReqs' = Take(delReqs, req)
    /\ IF ok
       THEN /\ loading' = TRUE
            /\ listReqs' = Put(listReqs, req.params)
       ELSE UNCHANGED <<loading, listReqs>>
    /\ UNCHANGED <<searchKeyword, data, page, viewCnt, isModalOpen, selectedBook, listDeps, range>>
    /\ UNCHANGED <<modalVars, detailReqs, saveReqs, session, lastArrived>>

\* ------------------------------------------------------------- edit form
\* The close button (always enabled) and the cancel button (disabled while loading).
onClose ==
    /\ Flushed /\ isModalOpen
    /\ Room(IF selectedBook # "" THEN 1 ELSE 0)
    /\ isModalOpen' = FALSE
    /\ UNCHANGED <<searchKeyword, data, loading, page, viewCnt, selectedBook, listDeps, range>>
    /\ UNCHANGED <<modalVars, netVars, session, lastArrived>>

\* A file picked in the modal is identified by the session it was picked in.
handleFileChange ==
    /\ Flushed /\ isModalOpen
    /\ thumbnail' = session
    /\ UNCHANGED <<clientVars, bookData, modalLoading, error, modalDeps, netVars, session, lastArrived>>

\* handleSaveBook up to its fetch: the method and the url of the save request.
SaveMethod(book) == IF book.id # "" THEN "PUT" ELSE "POST"

handleSubmit ==
    /\ Flushed /\ isModalOpen
    /\ ~modalLoading
    /\ Room(1)
    /\ modalLoading' = TRUE
    /\ error' = ""
    /\ saveReqs' = Put(saveReqs,
            [method |-> SaveMethod(bookData), id |-> bookData.id,
             thumbnail |-> thumbnail, params |-> CurrentParams,
             session |-> session, create |-> (selectedBook = "")])
    /\ UNCHANGED <<clientVars, bookData, thumbnail, modalDeps>>
    /\ UNCHANGED <<listReqs, detailReqs, delReqs, session, lastArrived>>

SaveErrorMessageNoFallback(msg) == msg

SaveErrorMessage(msg) == IF msg # "" THEN msg ELSE DefaultSaveError

\* handleSaveBook after its fetch resolved with res.ok, and handleSubmit after it.
SaveSucceeds(req) ==
    /\ Flushed
    /\ BagIn(req, saveReqs)
    /\ InFlight + (IF isModalOpen /\ selectedBook # "" THEN 1 ELSE 0) <= MaxInFlight
    /\ saveReqs' = Take(saveReqs, req)
    /\ loading' = TRUE
    /\ listReqs' = Put(listReqs, req.params)
    /\ isModalOpen' = FALSE
    /\ modalLoading' = FALSE
    /\ UNCHANGED <<searchKeyword, data, page, viewCnt, selectedBook, listDeps, range>>
    /\ UNCHANGED <<bookData, error, thumbnail, modalDeps>>
    /\ UNCHANGED <<detailReqs, delReqs, session, lastArrived>>

\* handleSaveBook after its fetch resolved with !res.ok, and handleSubmit after it.
SaveFails(req, msg) ==
    /\ Flushed
    /\ BagIn(req, saveReqs)
    /\ saveReqs' = Take(saveReqs, req)
    /\ error' = SaveErrorMessage(msg)
    /\ modalLoading' = FALSE
    /\ UNCHANGED <<clientVars, bookData, thumbnail, modalDeps>>
    /\ UNCHANGED <<listReqs, detailReqs, delReqs, session, lastArrived>>

\* The continuation of getBookDetail after its fetch.
DetailResponse(bookId, ok) ==
    /\ Flushed
    /\ BagIn(bookId, detailReqs)
    /\ detailReqs' = Take(detailReqs, bookId)
    /\ IF ok THEN bookData' = [id |-> bookId] ELSE UNCHANGED bookData
    /\ modalLoading' = FALSE
    /\ UNCHANGED <<clientVars, error, thumbnail, modalDeps>>
    /\ UNCHANGED <<listReqs, saveReqs, delReqs, session, lastArrived>>

\* ------------------------------------------------------------ the program
\* The state of the first render, before its effects have run.
Init ==
    /\ searchKeyword = ""
    /\ data = Null
    /\ loading = FALSE
    /\ page = 1
    /\ viewCnt = ViewCnt
    /\ isModalOpen = FALSE
    /\ selectedBook = ""
    /\ listDeps = <<>>
    /\ range = <<>>
    /\ bookData = initialBookState
    /\ modalLoading = FALSE
    /\ error = ""
    /\ thumbnail = NoFile
    /\ modalDeps = <<>>
    /\ listReqs = EmptyBag
    /\ detailReqs = EmptyBag
    /\ saveReqs = EmptyBag
    /\ delReqs = EmptyBag
    /\ session = 0
    /\ lastArrived = Null

\* The environment's and the user's choices, one action per control or response.
SearchBoxChange == \E k \in Keywords : setSearchKeyword(k)

ListArrives ==
    \E req \in BagToSet(listReqs) : \E ok \in BOOLEAN :
        \E result \in ListResults(req) : ListResponse(req, ok, result)

RowClick == \E b \in BookIds : handleEditBook(b)

DeleteClick == \E b \in BookIds : handleDelBook(b)

DeleteArrives == \E req \in BagToSet(delReqs) : \E ok \in BOOLEAN : DeleteResponse(req, ok)

SaveArrivesOk == \E req \in BagToSet(saveReqs) : SaveSucceeds(req)

SaveArrivesFailed ==
    \E req \in BagToSet(saveReqs) : \E msg \in ServerMessages : SaveFails(req, msg)

DetailArrives == \E b \in BagToSet(detailReqs) : \E ok \in BOOLEAN : DetailResponse(b, ok)

\* The list controller alone: the modal is never opened.
ListNext ==
    \/ ModalEffect
    \/ ListEffect
    \/ SearchBoxChange
    \/ handleSearch
    \/ PrevButton
    \/ PageButton
    \/ NextButton
    \/ ListArrives
    \/ DeleteClick
    \/ DeleteArrives

\* The edit form and what it needs of the list: the search box, the page
\* buttons and the delete buttons are not used.
ModalNext ==
    \/ ModalEffect
    \/ ListEffect
    \/ ListArrives
    \/ handleAddBook
    \/ RowClick
    \/ onClose
    \/ handleFileChange
    \/ handleSubmit
    \/ SaveArrivesOk
    \/ SaveArrivesFailed
    \/ DetailArrives

Next == ListNext \/ ModalNext

Spec == Init /\ [][Next]_vars

SpecList == Init /\ [][ListNext]_vars

SpecModal == Init /\ [][ModalNext]_vars

\* ------------------------------------------- the pagination window alone
\* Every page and every page count of the bounds, on the first render.
WindowInit ==
    /\ page \in 1..WinMaxPage
    /\ data \in {Null} \cup
          { <<r>> : r \in [for : {Params(1, ViewCnt, "")},
                           totalPages : 0..WinMaxTotal, hasRows : {TRUE}] }
    /\ searchKeyword = ""
    /\ loading = FALSE
    /\ viewCnt = ViewCnt
    /\ isModalOpen = FALSE
    /\ selectedBook = ""
    /\ listDeps = <<>>
    /\ range = <<>>
    /\ bookData = initialBookState
    /\ modalLoading = FALSE
    /\ error = ""
    /\ thumbnail = NoFile
    /\ modalDeps = <<>>
    /\ listReqs = EmptyBag
    /\ detailReqs = EmptyBag
    /\ saveReqs = EmptyBag
    /\ delReqs = EmptyBag
    /\ session = 0
    /\ lastArrived = Null

\* getPaginationRange().map(...) of the render
WindowRender ==
    /\ range' = getPaginationRange(page, data)
    /\ UNCHANGED <<searchKeyword, data, loading, page, viewCnt, isModalOpen, selectedBook, listDeps>>
    /\ UNCHANGED <<modalVars, netVars, session, lastArrived>>

SpecWindow == WindowInit /\ [][WindowRender]_vars

\* ================================================================ claims
TotalPages == IF data = Null THEN 0 ELSE data[1].totalPages

Run(from, to) == [i \in 1..Max(to - from + 1, 0) |-> from + i - 1]

\* C1: for every page >= 1 and every totalPages >= 0 (page > totalPages
\* included) the pagination window is a contiguous ascending run of at most
\* 10 integers, each in [1, totalPages]; it is empty when totalPages = 0.
C1_WindowIsBoundedRun ==
    /\ Len(range) <= 10
    /\ \A i \in 1..Len(range) : range[i] \in 1..TotalPages
    /\ \A i \in 1..(Len(range) - 1) : range[i + 1] = range[i] + 1
    /\ (TotalPages = 0 => range = <<>>)

\* C1's case: the current page lies beyond the last page and a window is shown.
C1_Witness == page > TotalPages /\ Len(range) = 3 /\ range[3] = TotalPages

\* C2 as amended: the window of page 7 of 20 is the pages 2 through 11, and
\* the window of page 1 of 3 is 1, 2, 3.
C2_WindowExamples ==
    [][WindowRender =>
         /\ (page = 7 /\ TotalPages = 20 => range' = Run(2, 11))
         /\ (page = 1 /\ TotalPages = 3 => range' = <<1, 2, 3>>)]_vars

\* C2's case: the window of page 7 of 20 has been rendered.
C2_Witness == page = 7 /\ TotalPages = 20 /\ range = <<2, 3, 4, 5, 6, 7, 8, 9, 10, 11>>

\* C2 as stated: the window of page 7 of 20 is the pages 3 through 12, and
\* the window of page 1 of 3 is 1, 2, 3.
C2_AsStated ==
    [][WindowRender =>
         /\ (page = 7 /\ TotalPages = 20 => range' = Run(3, 12))
         /\ (page = 1 /\ TotalPages = 3 => range' = <<1, 2, 3>>)]_vars

\* The list requests a step issues.
Issued == { r \in BagToSet(listReqs') : CopiesIn(r, listReqs') > CopiesIn(r, listReqs) }

\* C3: every list request issued by a search submission carries page = 1,
\* whatever the page was before the submission.
C3_SearchRequestsCarryPageOne ==
    [][handleSearch => \A r \in Issued : r.page = 1]_vars

\* C4: a user action that changes searchKeyword, page or viewCnt causes
\* exactly one list request, carrying the new values: the request of the
\* list effect that follows the change, and none of the handler's own.
C4_OneRequestPerChange ==
    [][/\ (CurrentParams' # CurrentParams => listReqs' = listReqs)
       /\ (ListEffect => listReqs' = Put(listReqs, CurrentParams))]_vars

\* C5: every open of the modal clears the pending thumbnail, so a save
\* request never carries a file picked in an earlier session of the modal:
\* its thumbnail is absent or was picked in the session of the submit.
C5_NoThumbnailOfEarlierSession ==
    /\ \A r \in BagToSet(saveReqs) : r.thumbnail \in {NoFile, r.session}
    /\ (isModalOpen /\ Flushed => thumbnail \in {NoFile, session})

\* C5's case: a file was picked and submitted in one session, and a later
\* session submitted without picking a file.
C5_Witness ==
    \E r1, r2 \in BagToSet(saveReqs) :
        /\ r1.session < r2.session
        /\ r1.thumbnail # NoFile
        /\ r2.thumbnail = NoFile

C7_PageAtLeastOne == page \in Nat /\ page >= 1

\* C7's case: the page has gone back to 1 from page 2, whose result is on screen.
C7_Witness == page = 1 /\ PaginationShown(data) /\ data[1].for.page = 2

\* C8: the result on screen is that of the last successful list response to
\* arrive (a failed response leaves it as it was), whether or not that
\* response belongs to the current searchKeyword, page and viewCnt.
C8_LastResponseWins == data = lastArrived

\* C8's case: every request has settled and the result on screen belongs to
\* a request whose parameters are not the current ones.
C8_Witness ==
    /\ Flushed /\ InFlight = 0
    /\ data # Null /\ data[1].for # CurrentParams

\* C9: a save request issued in a session opened in create mode is a POST.
C9_CreateSessionSavesArePost ==
    \A r \in BagToSet(saveReqs) : r.create => r.method = "POST"

\* C10: when the modal goes from closed to open its error message is empty.
C10_ErrorEmptyOnOpen ==
    [][(~isModalOpen /\ isModalOpen') => error' = ""]_vars

====
